---- MODULE Spec2Model ----
(***************************************************************************)
(* Model of models/vgg.py: the VGG16/VGG19 (with and without batch-norm)   *)
(* network definitions, in their ordinary (VGGBase) and curve (VGGCurve)   *)
(* variants, and the parameter-count helpers get_size / compute_k.         *)
(*                                                                         *)
(* A tensor is represented by its width (channel count; the inputs are     *)
(* 32x32 images, so after the five poolings the flattened width is the     *)
(* channel count).  A module is a record of its class, its shape, the      *)
(* keyword arguments it was constructed with and the state of each of its  *)
(* parameters.                                                             *)
(***************************************************************************)
EXTENDS Integers, Sequences, FiniteSets, TLC

\* ---------------------------------------------------------------- bounds
MaxK == 5
MaxClasses == 3
MaxBends == 2
MaxCoeffs == 2

\* ------------------------------------------------------- python values
None == <<>>
Some(v) == <<v>>

Min(a, b) == IF a <= b THEN a ELSE b

RECURSIVE Concat(_)
Concat(ss) == IF Len(ss) = 0 THEN <<>> ELSE Head(ss) \o Concat(Tail(ss))

\* channels of an RGB input image, the in_channels of the first convolution
RGB == 3

\* ------------------------------------------------------------- modules
Learnable == {"Conv2d", "BatchNorm2d", "Linear"}

\* a parameter tensor as the framework leaves it after construction
Fresh == [val |-> "default", n |-> 0, writes |-> 0]

\* m.num_bends of a curve module: one bend per entry of fix_points
num_bends(kwargs) == Len(kwargs[1])

\* cls(in, out, kernel_size, **kwargs): an nn module owns one weight and one
\* bias when it is learnable, a curve module owns weight_i / bias_i for
\* i in range(num_bends) (index i+1 here)
New(lib, kind, in, out, kernel_size, kwargs) ==
    LET np == IF kind \notin Learnable THEN 0
              ELSE IF lib = "curves" THEN num_bends(kwargs) ELSE 1
    IN [lib |-> lib, kind |-> kind, in_features |-> in, out_features |-> out,
        kernel_size |-> kernel_size, kwargs |-> kwargs,
        weight |-> [i \in 1..np |-> Fresh], bias |-> [i \in 1..np |-> Fresh]]

\* ------------------------------------------------ get_size / compute_k
size_a == (1+2*1+2*2+4*2+2*4*4+8*4+5*8*8)*9 + 2*8*8
size_b(num_classes) == 3*9+2+2*2+4*3+8*8+8*num_classes

get_size_4(k, num_classes) ==
    (3*9+2+2*2+4*3+8*8+8*num_classes)*k
    + ((1+2*1+2*2+4*2+2*4*4+8*4+4*8*8)*9 + 2*8*8)*k*k + num_classes

get_size(k, num_classes) ==
    (3*9+2+2*2+4*3+8*8+8*num_classes)*k
    + ((1+2*1+2*2+4*2+2*4*4+8*4+5*8*8)*9 + 2*8*8)*k*k + num_classes

\* floor of the square root, by bisection
RECURSIVE isqrt_search(_, _, _)
isqrt_search(n, lo, hi) ==
    IF lo = hi THEN lo
    ELSE LET mid == (lo + hi + 1) \div 2
         IN IF mid * mid <= n THEN isqrt_search(n, mid, hi)
            ELSE isqrt_search(n, lo, mid - 1)
isqrt(n) == isqrt_search(n, 0, 46340)

\* np.round((num + frac) / den) for an integer num, a fraction 0 <= frac < 1
\* that is zero iff exact, and den = 2 * half: nearest integer, ties to even
round_div(num, exact, half) ==
    LET q == num \div (2 * half)
        r == num % (2 * half)
    IN IF r < half THEN q
       ELSE IF r > half \/ ~exact THEN q + 1
       ELSE IF q % 2 = 0 THEN q ELSE q + 1

compute_k_aN(N, num_classes) ==
    LET a == size_a
        b == size_b(num_classes)
        c == num_classes
        D == a*N + (b*b - 4*a*c)
        s == isqrt(D)
    IN round_div(s - b, s * s = D, a)

compute_k(N, num_classes) ==
    LET a == size_a
        b == size_b(num_classes)
        c == num_classes
        D == 4*a*N + (b*b - 4*a*c)
        s == isqrt(D)
    IN round_div(s - b, s * s = D, a)

\* ----------------------------------------------------------- get_config
get_config(depth, k) ==
    IF depth = 16
    THEN << <<k, k>>, <<k*2, k*2>>, <<k*4, k*4, k*4>>, <<k*8, k*8, k*8>>,
            <<k*8, k*8, k*8>> >>
    ELSE << <<64, 64>>, <<128, 128>>, <<256, 256, 256, 256>>,
            <<512, 512, 512, 512>>, <<512, 512, 512, 512>> >>

\* ---------------------------------------------------------- make_layers
make_kwargs(fix_points) ==
    IF fix_points # None THEN Some(fix_points[1]) ELSE <<>>

conv_class(fix_points) == IF fix_points # None THEN "curves" ELSE "nn"

bn_class_nn(fix_points) == "nn"

bn_class(fix_points) == IF fix_points # None THEN "curves" ELSE "nn"

\* the value of in_channels when the loops reach config[b][j]
in_channels_at(config, b, j) ==
    LET before == Concat(SubSeq(config, 1, b - 1)) \o SubSeq(config[b], 1, j - 1)
    IN IF Len(before) = 0 THEN RGB ELSE before[Len(before)]

\* what one iteration of the inner loop appends to layer_blocks[-1]
layers_for(in_channels, channels, batch_norm, fix_points) ==
    << New(conv_class(fix_points), "Conv2d", in_channels, channels, 3,
           make_kwargs(fix_points)) >>
    \o (IF batch_norm
        THEN << New(bn_class(fix_points), "BatchNorm2d", channels, channels, 0,
                    make_kwargs(fix_points)) >>
        ELSE <<>>)

make_layers(config, batch_norm, fix_points) ==
    [layer_blocks |->
        [b \in 1..Len(config) |->
            Concat([j \in 1..Len(config[b]) |->
                layers_for(in_channels_at(config, b, j), config[b][j],
                           batch_norm, fix_points)])],
     activation_blocks |->
        [b \in 1..Len(config) |->
            [j \in 1..Len(config[b]) |-> New("nn", "ReLU", 0, 0, 0, <<>>)]],
     poolings |->
        [b \in 1..Len(config) |-> New("nn", "MaxPool2d", 0, 0, 2, <<>>)]]

\* ------------------------------------------------ weight initialisation
\* body of the loop of VGGBase.__init__ over self.modules()
init_base(m) ==
    IF m.lib = "nn" /\ m.kind = "Conv2d"
    THEN LET n == m.kernel_size * m.kernel_size * m.out_features
         IN [m EXCEPT
               !.weight = [i \in DOMAIN m.weight |->
                   [val |-> "normal", n |-> n, writes |-> m.weight[i].writes + 1]],
               !.bias = [i \in DOMAIN m.bias |->
                   [val |-> "zero", n |-> 0, writes |-> m.bias[i].writes + 1]]]
    ELSE m

bends_range_short(m) == 1..(num_bends(m.kwargs) - 1)

\* the bend indices the inner loop of VGGCurve.__init__ visits (i+1 here)
bends_range(m) == 1..num_bends(m.kwargs)

\* body of the loop of VGGCurve.__init__ over self.modules()
init_curve(m) ==
    IF m.lib = "curves" /\ m.kind = "Conv2d"
    THEN LET n == m.kernel_size * m.kernel_size * m.out_features
         IN [m EXCEPT
               !.weight = [i \in DOMAIN m.weight |->
                   IF i \in bends_range(m)
                   THEN [val |-> "normal", n |-> n,
                         writes |-> m.weight[i].writes + 1]
                   ELSE m.weight[i]],
               !.bias = [i \in DOMAIN m.bias |->
                   IF i \in bends_range(m)
                   THEN [val |-> "zero", n |-> 0,
                         writes |-> m.bias[i].writes + 1]
                   ELSE m.bias[i]]]
    ELSE m

init_blocks(blocks, curve) ==
    [b \in DOMAIN blocks |->
        [i \in DOMAIN blocks[b] |->
            IF curve THEN init_curve(blocks[b][i]) ELSE init_base(blocks[b][i])]]

init_list(ms, curve) ==
    [i \in DOMAIN ms |-> IF curve THEN init_curve(ms[i]) ELSE init_base(ms[i])]

\* --------------------------------------------------------- constructors
base_fc1_8k(config, k) == New("nn", "Linear", 8*k, 8*k, 0, <<>>)

base_fc1(config, k) == New("nn", "Linear", config[Len(config)][Len(config[Len(config)])], 8*k, 0, <<>>)

VGGBase(num_classes, depth, batch_norm, k, use_InstanceNorm) ==
    LET config == get_config(depth, k)
        ml == make_layers(config, batch_norm, None)
        classifier == << New("nn", "Dropout", 0, 0, 0, <<>>),
                         base_fc1(config, k),
                         New("nn", "ReLU", 0, 0, 0, <<>>),
                         New("nn", "Dropout", 0, 0, 0, <<>>),
                         New("nn", "Linear", 8*k, 8*k, 0, <<>>),
                         New("nn", "ReLU", 0, 0, 0, <<>>),
                         New("nn", "Linear", 8*k, num_classes, 0, <<>>) >>
        normalization == IF use_InstanceNorm
                         THEN << New("nn", "InstanceNorm1d", 0, 0, 0, <<>>) >>
                         ELSE <<>>
    IN [class |-> "VGGBase",
        layer_blocks |-> init_blocks(ml.layer_blocks, FALSE),
        activation_blocks |-> init_blocks(ml.activation_blocks, FALSE),
        poolings |-> init_list(ml.poolings, FALSE),
        use_InstanceNorm |-> use_InstanceNorm,
        head |-> init_list(classifier, FALSE),
        normalization |-> init_list(normalization, FALSE)]

curve_fc(num_classes, fix_points) ==
    << New("curves", "Linear", 512, 512, 0, Some(fix_points)),
       New("curves", "Linear", 512, 512, 0, Some(fix_points)),
       New("curves", "Linear", 512, num_classes, 0, Some(fix_points)) >>

VGGCurve(num_classes, fix_points, depth, k, batch_norm) ==
    LET ml == make_layers(get_config(depth, k), batch_norm, Some(fix_points))
        fc == curve_fc(num_classes, fix_points)
        head == << New("nn", "Dropout", 0, 0, 0, <<>>),
                   fc[1],
                   New("nn", "ReLU", 0, 0, 0, <<>>),
                   New("nn", "Dropout", 0, 0, 0, <<>>),
                   fc[2],
                   New("nn", "ReLU", 0, 0, 0, <<>>),
                   fc[3] >>
    IN [class |-> "VGGCurve",
        layer_blocks |-> init_blocks(ml.layer_blocks, TRUE),
        activation_blocks |-> init_blocks(ml.activation_blocks, TRUE),
        poolings |-> init_list(ml.poolings, TRUE),
        use_InstanceNorm |-> FALSE,
        head |-> init_list(head, TRUE),
        normalization |-> <<>>]

\* -------------------------------------------------------------- forward
\* zip(layers, activations): pairs up to the shorter of the two
zip_len(layers, activations) == Min(Len(layers), Len(activations))

Step(m, coeffs) == [module |-> m, coeffs |-> coeffs]

\* the calls of the inner loop and the pooling of one block; c is the extra
\* argument handed to layer(...): None in VGGBase, Some(coeffs_t) in VGGCurve
block_steps(layers, activations, pooling, c) ==
    Concat([i \in 1..zip_len(layers, activations) |->
               << Step(layers[i], c), Step(activations[i], None) >>])
    \o << Step(pooling, None) >>

feature_steps(net, c) ==
    Concat([b \in 1..Min(Len(net.layer_blocks),
                         Min(Len(net.activation_blocks), Len(net.poolings))) |->
               block_steps(net.layer_blocks[b], net.activation_blocks[b],
                           net.poolings[b], c)])

\* self.classifier(x), then the optional normalization
base_steps(net) ==
    feature_steps(net, None)
    \o [i \in 1..Len(net.head) |-> Step(net.head[i], None)]
    \o (IF net.use_InstanceNorm
        THEN [i \in 1..Len(net.normalization) |-> Step(net.normalization[i], None)]
        ELSE <<>>)

curve_head_coeffs_fc2(coeffs_t) ==
    << None, Some(coeffs_t), None, None, None, None, Some(coeffs_t) >>

\* the argument lists of dropout1, fc1, relu1, dropout2, fc2, relu2, fc3
curve_head_coeffs(coeffs_t) ==
    << None, Some(coeffs_t), None, None, Some(coeffs_t), None, Some(coeffs_t) >>

curve_steps(net, coeffs_t) ==
    feature_steps(net, Some(coeffs_t))
    \o [i \in 1..Len(net.head) |-> Step(net.head[i], curve_head_coeffs(coeffs_t)[i])]

\* a module call succeeds when the argument list fits the module's forward
\* and the activation has the width the module was built for
accepts(m, x, coeffs) ==
    /\ (m.lib = "curves") <=> (coeffs # None)
    /\ m.kind \in Learnable => m.in_features = x

output(m, x) == IF m.kind \in {"Conv2d", "Linear"} THEN m.out_features ELSE x

\* run the calls in order; a call that raises ends the forward pass
RECURSIVE run(_, _, _)
run(steps, x, done) ==
    IF Len(steps) = 0 THEN [trace |-> done, ok |-> TRUE, x |-> x]
    ELSE LET s == Head(steps)
             call == [module |-> s.module, x |-> x, coeffs |-> s.coeffs]
         IN IF ~accepts(s.module, x, s.coeffs)
            THEN [trace |-> Append(done, call), ok |-> FALSE, x |-> x]
            ELSE run(Tail(steps), output(s.module, x), Append(done, call))

\* ---------------------------------------------------------------- state
VARIABLES args, net, fwd, size, kinv

vars == <<args, net, fwd, size, kinv>>

KSet == 1..MaxK
ClassesSet == 1..MaxClasses
DepthSet == {16, 19}
CoeffsSet == 1..MaxCoeffs
FixPointsSet == UNION {[1..n -> BOOLEAN] : n \in 1..MaxBends}

\* the arguments shared by the constructors and get_size are drawn first
Init ==
    /\ args \in [num_classes : ClassesSet, depth : DepthSet,
                 batch_norm : BOOLEAN, k : KSet, fix_points : {None}]
    /\ net = None
    /\ fwd = None
    /\ size = None
    /\ kinv = None

VGGBase_init ==
    /\ net = None
    /\ \E use_InstanceNorm \in BOOLEAN :
        net' = Some(VGGBase(args.num_classes, args.depth, args.batch_norm,
                            args.k, use_InstanceNorm))
    /\ UNCHANGED <<args, fwd, size, kinv>>

VGGCurve_init ==
    /\ net = None
    /\ \E fix_points \in FixPointsSet :
        /\ args' = [args EXCEPT !.fix_points = Some(fix_points)]
        /\ net' = Some(VGGCurve(args.num_classes, fix_points, args.depth,
                                args.k, args.batch_norm))
    /\ UNCHANGED <<fwd, size, kinv>>

VGGBase_forward ==
    /\ net # None
    /\ net[1].class = "VGGBase"
    /\ fwd' = Some(run(base_steps(net[1]), RGB, <<>>)
                   @@ [coeffs_t |-> None])
    /\ UNCHANGED <<args, net, size, kinv>>

VGGCurve_forward ==
    /\ net # None
    /\ net[1].class = "VGGCurve"
    /\ \E coeffs_t \in CoeffsSet :
        fwd' = Some(run(curve_steps(net[1], coeffs_t), RGB, <<>>)
                    @@ [coeffs_t |-> Some(coeffs_t)])
    /\ UNCHANGED <<args, net, size, kinv>>

GetSize ==
    /\ size' = Some([k |-> args.k, num_classes |-> args.num_classes,
                     result |-> get_size(args.k, args.num_classes)])
    /\ kinv' = None
    /\ UNCHANGED <<args, net, fwd>>

ComputeK ==
    /\ size # None
    /\ kinv' = Some([N |-> size[1].result, num_classes |-> size[1].num_classes,
                     result |-> compute_k(size[1].result, size[1].num_classes)])
    /\ UNCHANGED <<args, net, fwd, size>>

Next ==
    \/ VGGBase_init
    \/ VGGCurve_init
    \/ VGGBase_forward
    \/ VGGCurve_forward
    \/ GetSize
    \/ ComputeK

Spec == Init /\ [][Next]_vars

\* ------------------------------------------------------------ properties
Modules(n) ==
    Concat(n.layer_blocks) \o Concat(n.activation_blocks) \o n.poolings
    \o n.head \o n.normalization

Built(class) == net # None /\ net[1].class = class
Ran(class) == Built(class) /\ fwd # None

\* C1: in VGGCurve.forward every learnable layer that is called receives
\* exactly the coeffs_t passed to forward, and every ReLU, max-pool and
\* dropout is called with the activation only.
C1_CoeffsReachEveryLearnableLayer ==
    Ran("VGGCurve") =>
        \A i \in 1..Len(fwd[1].trace) :
            LET call == fwd[1].trace[i]
            IN IF call.module.kind \in Learnable
               THEN call.coeffs = fwd[1].coeffs_t /\ call.coeffs # None
               ELSE call.coeffs = None

C1_Witness ==
    /\ Ran("VGGCurve")
    /\ fwd[1].ok
    /\ args.batch_norm
    /\ \E i \in 1..Len(fwd[1].trace) : fwd[1].trace[i].module.kind = "BatchNorm2d"
    /\ \E i \in 1..Len(fwd[1].trace) : fwd[1].trace[i].module.kind = "Linear"

\* C2: make_layers builds only ordinary convolutions and batch-norms, without
\* a fix_points argument, when fix_points is None, and only curve ones, with
\* exactly that fix_points, otherwise; ReLU and max-pool are always ordinary.
C2_AllOrNothingDispatch ==
    net # None =>
        LET n == net[1]
            fp == args.fix_points
        IN /\ \A b \in 1..Len(n.layer_blocks) : \A i \in 1..Len(n.layer_blocks[b]) :
                LET m == n.layer_blocks[b][i]
                IN /\ m.kind \in {"Conv2d", "BatchNorm2d"}
                   /\ IF fp = None
                      THEN m.lib = "nn" /\ m.kwargs = <<>>
                      ELSE m.lib = "curves" /\ m.kwargs = << fp[1] >>
           /\ \A b \in 1..Len(n.activation_blocks) :
                \A i \in 1..Len(n.activation_blocks[b]) :
                    LET m == n.activation_blocks[b][i]
                    IN m.kind = "ReLU" /\ m.lib = "nn" /\ m.kwargs = <<>>
           /\ \A b \in 1..Len(n.poolings) :
                LET m == n.poolings[b]
                IN m.kind = "MaxPool2d" /\ m.lib = "nn" /\ m.kwargs = <<>>

C2_Witness ==
    /\ Built("VGGCurve")
    /\ args.batch_norm
    /\ Len(args.fix_points[1]) = MaxBends
    /\ \E i \in 1..Len(net[1].layer_blocks[3]) :
           net[1].layer_blocks[3][i].kind = "BatchNorm2d"

\* the layers and activations of one block in construction order: each
\* convolution, its batch-norm when there is one, one ReLU; then the pooling
RECURSIVE ConstructionOrder(_, _, _)
ConstructionOrder(layers, activations, g) ==
    IF Len(activations) = 0 THEN layers
    ELSE SubSeq(layers, 1, g) \o << Head(activations) >>
         \o ConstructionOrder(SubSeq(layers, g + 1, Len(layers)), Tail(activations), g)

ExpectedFeatureCalls(n, batch_norm) ==
    Concat([b \in 1..Len(n.layer_blocks) |->
        ConstructionOrder(n.layer_blocks[b], n.activation_blocks[b],
                          IF batch_norm THEN 2 ELSE 1)
        \o << n.poolings[b] >>])

\* C3: the forward pass applies every layer of every block exactly once and
\* in construction order (convolution, its batch-norm, one ReLU), and the
\* block's pooling after them; no convolution or batch-norm is skipped.
C3_EveryBlockLayerApplied ==
    (net # None /\ fwd # None) =>
        LET expected == ExpectedFeatureCalls(net[1], args.batch_norm)
            trace == fwd[1].trace
        IN /\ Len(trace) >= Len(expected)
           /\ \A i \in 1..Len(expected) : trace[i].module = expected[i]

RECURSIVE SumParams(_)
SumParams(ms) ==
    IF Len(ms) = 0 THEN 0
    ELSE LET m == Head(ms)
         IN (IF m.kind = "Conv2d"
             THEN m.in_features * m.out_features * m.kernel_size * m.kernel_size
                  + m.out_features
             ELSE IF m.kind = "Linear"
             THEN m.in_features * m.out_features + m.out_features
             ELSE IF m.kind = "BatchNorm2d" THEN 2 * m.out_features
             ELSE 0)
            + SumParams(Tail(ms))

\* C4: get_size(k, num_classes) is the number of learnable scalars of
\* VGGBase(num_classes, depth=16, batch_norm=False, k=k).
C4_GetSizeCountsParameters ==
    (Built("VGGBase") /\ size # None /\ args.depth = 16 /\ ~args.batch_norm
        /\ size[1].k = args.k /\ size[1].num_classes = args.num_classes)
    => size[1].result = SumParams(Modules(net[1]))

C4_Witness ==
    /\ Built("VGGBase") /\ size # None
    /\ args.depth = 16 /\ ~args.batch_norm
    /\ size[1].k = args.k /\ size[1].num_classes = args.num_classes
    /\ args.k = MaxK /\ args.num_classes = MaxClasses

\* C5: compute_k(get_size(k, num_classes), num_classes) = k.
C5_ComputeKInvertsGetSize ==
    kinv # None => kinv[1].result = size[1].k

C5_Witness ==
    /\ kinv # None
    /\ size[1].k = MaxK
    /\ kinv[1].N = get_size(MaxK, size[1].num_classes)

\* kind and widths of the modules in the order the forward pass calls them
Shapes(n) ==
    LET steps == feature_steps(n, None) \o [i \in 1..Len(n.head) |-> Step(n.head[i], None)]
    IN [i \in 1..Len(steps) |->
           [kind |-> steps[i].module.kind,
            in_features |-> steps[i].module.in_features,
            out_features |-> steps[i].module.out_features]]

\* C6: for the same arguments VGGBase and VGGCurve have the same sequence of
\* layer kinds with the same input and output widths, for every k.
C6_CurveMatchesBaseTopology ==
    Built("VGGCurve") =>
        Shapes(net[1]) = Shapes(VGGBase(args.num_classes, args.depth,
                                        args.batch_norm, args.k, FALSE))

\* the width produced by the last convolution or fully-connected layer among
\* the first i calls (the input image's channels when there is none)
RECURSIVE Produced(_, _)
Produced(trace, i) ==
    IF i = 0 THEN RGB
    ELSE IF trace[i].module.kind \in {"Conv2d", "Linear"}
    THEN trace[i].module.out_features
    ELSE Produced(trace, i - 1)

\* C7: along the VGGBase forward pass the first convolution expects 3
\* channels, every applied learnable layer expects the width produced by the
\* previously applied one, and the final output width is num_classes.
C7_WidthsConsistent ==
    Ran("VGGBase") =>
        LET trace == fwd[1].trace
        IN /\ fwd[1].ok
           /\ Len(trace) = Len(base_steps(net[1]))
           /\ trace[1].module.kind = "Conv2d" /\ trace[1].module.in_features = 3
           /\ \A i \in 1..Len(trace) :
                trace[i].module.kind \in Learnable =>
                    /\ trace[i].module.in_features = Produced(trace, i - 1)
                    /\ trace[i].x = Produced(trace, i - 1)
           /\ Produced(trace, Len(trace)) = args.num_classes
           /\ fwd[1].x = args.num_classes

C7_Witness ==
    /\ Ran("VGGBase")
    /\ fwd[1].ok
    /\ args.depth = 19 /\ args.batch_norm /\ net[1].use_InstanceNorm
    /\ \E i \in 1..Len(fwd[1].trace) : fwd[1].trace[i].module.kind = "InstanceNorm1d"

BlockWidths == <<1, 2, 4, 8, 8>>

\* C8: for depth 16 and depth 19 alike the five blocks have convolutions of
\* widths k, 2k, 4k, 8k, 8k, and convolutions + 3 = depth.
C8_WidthsScaleWithK ==
    net # None =>
        LET blocks == net[1].layer_blocks
            convs == SelectSeq(Concat(blocks), LAMBDA m : m.kind = "Conv2d")
        IN /\ Len(blocks) = 5
           /\ \A b \in 1..Len(blocks) : \A i \in 1..Len(blocks[b]) :
                blocks[b][i].kind = "Conv2d" =>
                    blocks[b][i].out_features = BlockWidths[b] * args.k
           /\ Len(convs) + 3 = args.depth

\* C9: the initialisation loop re-draws the weight and zeroes the bias of
\* every convolution (every bend of a curve convolution), each exactly once,
\* and touches no parameter of any other module.
C9_InitTouchesExactlyConvs ==
    net # None =>
        \A j \in 1..Len(Modules(net[1])) :
            LET m == Modules(net[1])[j]
                np == IF m.kind \notin Learnable THEN 0
                      ELSE IF args.fix_points = None THEN 1
                      ELSE Len(args.fix_points[1])
            IN /\ Len(m.weight) = np /\ Len(m.bias) = np
               /\ \A i \in 1..np :
                    IF m.kind = "Conv2d"
                    THEN /\ m.weight[i] = [val |-> "normal",
                                           n |-> 9 * m.out_features, writes |-> 1]
                         /\ m.bias[i] = [val |-> "zero", n |-> 0, writes |-> 1]
                    ELSE m.weight[i] = Fresh /\ m.bias[i] = Fresh

C9_Witness ==
    /\ Built("VGGCurve")
    /\ Len(args.fix_points[1]) >= 2
    /\ \E j \in 1..Len(Modules(net[1])) :
          /\ Modules(net[1])[j].kind = "Conv2d"
          /\ Len(Modules(net[1])[j].weight) >= 2
          /\ Modules(net[1])[j].weight[2].writes = 1
    /\ \E j \in 1..Len(Modules(net[1])) :
          /\ Modules(net[1])[j].kind = "Linear"
          /\ Modules(net[1])[j].weight[2] = Fresh

====
